---- MODULE Spec2Model ----
(***************************************************************************)
(* Thread map, backup codec, recovery loader, persistence publisher and    *)
(* router of src/main.py (a Telegram relay bot).                           *)
(*                                                                         *)
(* Texts are sequences of one-character strings.  The backup marker        *)
(* literal of lines 52, 55, 81 and 211 is the single symbol Marker.        *)
(* Python's None is the value None (an integer outside every id range, so  *)
(* that it can be compared with ids).  A dict is a sequence of [k, v]      *)
(* records in insertion order with pairwise different keys.                *)
(*                                                                         *)
(* The process is modelled from both of its entries: run_bot, the startup  *)
(* main() performs, exactly as written; and the coroutines of the module   *)
(* called with the arguments their signatures require (the loader with a   *)
(* bot, then the handlers with events), in the order run_bot lays out.     *)
(***************************************************************************)
EXTENDS Integers, Sequences, FiniteSets, TLC

\* ------------------------------------------------------------------ bounds
MaxThread == 2
MaxWindow == 2
MaxInFlight == 2

\* ------------------------------------------------------------------ values
None == 0 - 1
GENERAL_TOPIC == 1
UserIds == {9, 10}
ThreadIds == 9 .. (8 + MaxThread)
ThreadVals == ThreadIds \cup {None}

Marker == "@"
Whitespace == {" ", "\n"}
DigitChars == <<"0", "1", "2", "3", "4", "5", "6", "7", "8", "9">>

IsDigit(c) == \E d \in 1..10 : DigitChars[d] = c
DigitVal(c) == (CHOOSE d \in 1..10 : DigitChars[d] = c) - 1

\* str(n) of a natural number n (line 141, line 130)
RECURSIVE Str(_)
Str(n) == IF n < 10 THEN <<DigitChars[n + 1]>>
          ELSE Str(n \div 10) \o <<DigitChars[(n % 10) + 1]>>

\* ------------------------------------------------------------------ dicts
HasKey(d, key) == \E i \in 1..Len(d) : d[i].k = key
\* a lookup by the integer id, which no string key equals
GetByIntKey(d, key) == None
\* dict.get(key): the value, or None when the key is absent
Get(d, key) == IF HasKey(d, key)
               THEN d[CHOOSE i \in 1..Len(d) : d[i].k = key].v
               ELSE None
\* d[key] = val: an existing key keeps its position, a new key is appended
SetItem(d, key, val) ==
  IF HasKey(d, key)
  THEN [i \in 1..Len(d) |-> IF d[i].k = key THEN [k |-> key, v |-> val] ELSE d[i]]
  ELSE Append(d, [k |-> key, v |-> val])

\* ------------------------------------------------------------------ codec
\* json.dumps of one value: an int in decimal, None as null
DumpsValue(v) == IF v = None THEN <<"n", "u", "l", "l">> ELSE Str(v)

\* the items with their keys written as numbers, without quotes
RECURSIVE DumpsItemsIntKeys(_, _)
DumpsItemsIntKeys(d, i) ==
  IF i > Len(d) THEN <<>>
  ELSE <<" ", " ">> \o d[i].k \o <<":", " ">> \o DumpsValue(d[i].v)
       \o (IF i < Len(d) THEN <<",", "\n">> ELSE <<>>)
       \o DumpsItemsIntKeys(d, i + 1)

\* the items of a non-empty dict, indented by two, one per line
RECURSIVE DumpsItems(_, _)
DumpsItems(d, i) ==
  IF i > Len(d) THEN <<>>
  ELSE <<" ", " ", "\"">> \o d[i].k \o <<"\"", ":", " ">> \o DumpsValue(d[i].v)
       \o (IF i < Len(d) THEN <<",", "\n">> ELSE <<>>)
       \o DumpsItems(d, i + 1)

\* json.dumps(user_threads, ensure_ascii=False, indent=2)
JsonDumps(d) ==
  IF Len(d) = 0 THEN <<"{", "}">>
  ELSE <<"{", "\n">> \o DumpsItems(d, 1) \o <<"\n", "}">>

\* backup_text = f"<marker>\n{json_text}"
BackupText(d) == <<Marker, "\n">> \o JsonDumps(d)

\* str.replace(marker, ""): every occurrence of the marker is removed
RemoveMarker(s) == SelectSeq(s, LAMBDA c : c # Marker)

RECURSIVE LStrip(_)
LStrip(s) == IF s # <<>> /\ Head(s) \in Whitespace THEN LStrip(Tail(s)) ELSE s
RECURSIVE RStrip(_)
RStrip(s) == IF s # <<>> /\ s[Len(s)] \in Whitespace
             THEN RStrip(SubSeq(s, 1, Len(s) - 1)) ELSE s
\* str.strip()
Strip(s) == LStrip(RStrip(s))

\* text.startswith(marker)
StartsWithMarker(s) == s # <<>> /\ Head(s) = Marker

\* ---- json.loads, for the texts of thread-map backups: an object with string
\* ---- keys and integer or null values, an integer or null; anything else over
\* ---- the alphabet is a JSONDecodeError.
RECURSIVE SkipWs(_, _)
SkipWs(s, i) == IF i <= Len(s) /\ s[i] \in Whitespace THEN SkipWs(s, i + 1) ELSE i

RECURSIVE DigitsEnd(_, _)
DigitsEnd(s, i) == IF i <= Len(s) /\ IsDigit(s[i]) THEN DigitsEnd(s, i + 1) ELSE i

RECURSIVE DigitsValue(_, _, _)
DigitsValue(s, i, j) ==
  IF j < i THEN 0 ELSE 10 * DigitsValue(s, i, j - 1) + DigitVal(s[j])

ParseFail == [ok |-> FALSE, val |-> None, pos |-> 0]

\* a number: 0, or a run of digits that does not start with 0
ParseNumber(s, i) ==
  IF i > Len(s) \/ ~IsDigit(s[i]) THEN ParseFail
  ELSE IF s[i] = "0" THEN [ok |-> TRUE, val |-> 0, pos |-> i + 1]
  ELSE LET e == DigitsEnd(s, i)
       IN  [ok |-> TRUE, val |-> DigitsValue(s, i, e - 1), pos |-> e]

ParseNull(s, i) ==
  IF i + 3 <= Len(s) /\ SubSeq(s, i, i + 3) = <<"n", "u", "l", "l">>
  THEN [ok |-> TRUE, val |-> None, pos |-> i + 4]
  ELSE ParseFail

ParseScalar(s, i) ==
  IF i <= Len(s) /\ s[i] = "n" THEN ParseNull(s, i) ELSE ParseNumber(s, i)

RECURSIVE QuoteEnd(_, _)
QuoteEnd(s, i) == IF i <= Len(s) /\ s[i] # "\"" THEN QuoteEnd(s, i + 1) ELSE i

\* a string: the characters between two double quotes
ParseString(s, i) ==
  IF i > Len(s) \/ s[i] # "\"" THEN ParseFail
  ELSE LET e == QuoteEnd(s, i + 1)
       IN  IF e > Len(s) THEN ParseFail
           ELSE [ok |-> TRUE, val |-> SubSeq(s, i + 1, e - 1), pos |-> e + 1]

\* the members of an object after its opening brace: "key": value, ... }
RECURSIVE ParseMembers(_, _, _)
ParseMembers(s, i, acc) ==
  LET key == ParseString(s, SkipWs(s, i))
  IN  IF ~key.ok THEN ParseFail
      ELSE LET c == SkipWs(s, key.pos)
           IN  IF c > Len(s) \/ s[c] # ":" THEN ParseFail
               ELSE LET val == ParseScalar(s, SkipWs(s, c + 1))
                    IN  IF ~val.ok THEN ParseFail
                        ELSE LET n   == SkipWs(s, val.pos)
                                 now == SetItem(acc, key.val, val.val)
                             IN  IF n > Len(s) THEN ParseFail
                                 ELSE IF s[n] = "," THEN ParseMembers(s, n + 1, now)
                                 ELSE IF s[n] = "}"
                                      THEN [ok |-> TRUE, val |-> now, pos |-> n + 1]
                                 ELSE ParseFail

ParseObject(s, i) ==
  LET n == SkipWs(s, i + 1)
  IN  IF n <= Len(s) /\ s[n] = "}" THEN [ok |-> TRUE, val |-> <<>>, pos |-> n + 1]
      ELSE ParseMembers(s, i + 1, <<>>)

\* json.loads(text): [kind |-> "dict", val |-> the dict], [kind |-> "scalar"] for
\* an integer or null, [kind |-> "error"] when json.loads raises
JsonLoads(s) ==
  LET i == SkipWs(s, 1)
      r == IF i <= Len(s) /\ s[i] = "{" THEN ParseObject(s, i) ELSE ParseScalar(s, i)
  IN  IF ~r.ok \/ SkipWs(s, r.pos) <= Len(s) THEN [kind |-> "error", val |-> <<>>]
      ELSE IF i <= Len(s) /\ s[i] = "{" THEN [kind |-> "dict", val |-> r.val]
      ELSE [kind |-> "scalar", val |-> <<>>]

\* json_text = text.replace(marker, "").strip() (line 55)
JsonTextOf(text) == Strip(RemoveMarker(text))

\* ------------------------------------------------------------------ state
VARIABLES
  phase,              \* "import": module globals set (lines 31-33), nothing run;
                      \* "aborted": run_bot has raised; "serving": handlers receive events
  app_instance,       \* the global of line 33
  user_threads,       \* the global of line 31
  backup_message_id,  \* the global of line 32
  group,              \* the backup messages in the general topic of the admin
                      \* group, oldest first: those there when the model starts
                      \* and those this bot sends
  inflight,           \* the forward_to_group calls suspended in an await, by slot
  last                \* what the last operation that ended did (observation only)

vars == <<phase, app_instance, user_threads, backup_message_id, group, inflight, last>>

NoApp == "None"
GROUP_ID == "ADMIN_GROUP_ID"
OtherChat == "private"
ScanLimit == 100

\* the seven payload kinds forward_to_group relays (lines 155-201), and any other
RelayedKinds == {"text", "photo", "document", "video", "voice", "audio", "sticker"}
\* the kinds of the private messages the model sends: the first and the last
\* branch of lines 155-201, and a message none of the branches takes
EventKinds == {"text", "sticker", "other"}

\* op: the operation; key, kind: the sender and payload kind of a private message;
\* hadEntry, before: user_threads had the key, and user_threads.get(key), when
\* the handler started; creates: thread-creation sends made; createOk: that send
\* returned; publishes: backup transport calls that succeeded; relayed: a relay
\* send was made; thread: the thread relayed into, or the thread of an admin
\* event; copies: the users copy_message was called for; marked, topic: the
\* admin event starts with the marker, is a topic message; found, scanned,
\* updates: the loader found a backup, get_updates returned, and what it
\* returned; afterLoad: the operation before was a load that found a backup;
\* sends: relay sends made; sendOk: the relay send or the copy returned; saved:
\* save_threads_to_group was called; raised: an exception left the handler
NoOp == [op |-> "none", key |-> <<>>, kind |-> "other", hadEntry |-> FALSE,
         before |-> None, creates |-> 0, createOk |-> FALSE, publishes |-> 0,
         relayed |-> FALSE, thread |-> None,
         copies |-> {}, marked |-> FALSE, topic |-> FALSE,
         found |-> FALSE, scanned |-> FALSE, updates |-> <<>>,
         afterLoad |-> FALSE,
         sends |-> 0, sendOk |-> FALSE, saved |-> FALSE, raised |-> FALSE]

\* ---- the updates the transport may return to the scan, besides the bot's own
\* ---- backup messages
Key9 == <<"9">>
Key10 == <<"1", "0">>
Entry(key, val) == [k |-> key, v |-> val]
Upd(chat, thread, text) ==
  [has_message |-> TRUE, chat |-> chat, thread |-> thread, text |-> text]

WindowUpdates ==
  { Upd(GROUP_ID, GENERAL_TOPIC, BackupText(<<>>)),
    Upd(GROUP_ID, GENERAL_TOPIC, BackupText(<<Entry(Key9, 9)>>)),
    Upd(GROUP_ID, GENERAL_TOPIC, BackupText(<<Entry(Key10, 9), Entry(Key9, 10)>>)),
    Upd(GROUP_ID, GENERAL_TOPIC, BackupText(<<Entry(Key9, 10), Entry(Key10, 10)>>)),
    Upd(GROUP_ID, GENERAL_TOPIC, <<Marker>>),
    Upd(GROUP_ID, GENERAL_TOPIC, <<Marker, "\n", "{">>),
    Upd(GROUP_ID, GENERAL_TOPIC, <<Marker, "7">>),
    Upd(GROUP_ID, GENERAL_TOPIC, <<"h", "i">>),
    Upd(GROUP_ID, GENERAL_TOPIC, <<>>),
    Upd(GROUP_ID, 9, BackupText(<<Entry(Key10, 10)>>)),
    Upd(OtherChat, GENERAL_TOPIC, BackupText(<<Entry(Key10, 9)>>)),
    [Upd(GROUP_ID, GENERAL_TOPIC, BackupText(<<Entry(Key10, 9)>>))
       EXCEPT !.has_message = FALSE] }

WithIds(w) == [i \in 1..Len(w) |-> [message_id |-> i] @@ w[i]]
Windows == UNION { {WithIds(w) : w \in [1..n -> WindowUpdates]} : n \in 0..MaxWindow }

\* ------------------------------------------------------------------ loader
\* bot.get_updates(limit=100) (line 44): the most recent ScanLimit of the updates
\* `earlier` followed by the bot's own backup messages
GetUpdates(earlier, grp) ==
  LET all == earlier \o grp
  IN  IF Len(all) <= ScanLimit THEN all
      ELSE SubSeq(all, Len(all) - ScanLimit + 1, Len(all))

\* the condition of lines 48-52
IsCandidate(u) ==
  /\ u.has_message
  /\ u.chat = GROUP_ID
  /\ u.thread = GENERAL_TOPIC
  /\ u.text # <<>>
  /\ StartsWithMarker(u.text)

\* the loop of lines 47-65 as it would be if a payload that does not decode
\* were skipped like an empty one
RECURSIVE ScanUpdatesFallBack(_, _, _)
ScanUpdatesFallBack(updates, i, bmid) ==
  IF i = 0
  THEN [user_threads |-> <<>>, backup_message_id |-> bmid, found |-> FALSE]
  ELSE IF IsCandidate(updates[i])
       THEN LET json_text == JsonTextOf(updates[i].text)
                loaded    == JsonLoads(json_text)
                id        == updates[i].message_id
            IN  IF json_text # <<>> /\ loaded.kind = "dict"
                THEN [user_threads |-> loaded.val, backup_message_id |-> id,
                      found |-> TRUE]
                ELSE ScanUpdatesFallBack(updates, i - 1, id)
       ELSE ScanUpdatesFallBack(updates, i - 1, bmid)

\* the loop of lines 47-65 from update i down to update 1 (reversed(updates)),
\* with backup_message_id = bmid so far
RECURSIVE ScanUpdates(_, _, _)
ScanUpdates(updates, i, bmid) ==
  IF i = 0
  THEN [user_threads |-> <<>>, backup_message_id |-> bmid, found |-> FALSE]
  ELSE IF IsCandidate(updates[i])
       THEN LET json_text == JsonTextOf(updates[i].text)
                loaded    == JsonLoads(json_text)
                id        == updates[i].message_id
            IN  IF json_text # <<>>
                THEN IF loaded.kind = "dict"
                     THEN [user_threads |-> loaded.val, backup_message_id |-> id,
                           found |-> TRUE]
                     \* json.loads raised, or len() of an int or None raised
                     \* (line 59): the handler of lines 67-69
                     ELSE [user_threads |-> <<>>, backup_message_id |-> id,
                           found |-> FALSE]
                ELSE ScanUpdates(updates, i - 1, id)
       ELSE ScanUpdates(updates, i - 1, bmid)

\* load_threads_from_group(bot); updates: what get_updates returned, scanOk:
\* whether it returned at all
LoadThreads(updates, bmid, scanOk) ==
  IF scanOk
  THEN ScanUpdates(updates, Len(updates), bmid)
  ELSE [user_threads |-> <<>>, backup_message_id |-> bmid, found |-> FALSE]

\* ------------------------------------------------------------------ publisher
\* message ids of the bot's backup messages: past those of every earlier update
NextMessageId(grp) == MaxWindow + Len(grp) + 1
\* the backup messages the admin group may hold when the model starts
InitGroups ==
  {<<>>} \cup
  { <<[message_id |-> NextMessageId(<<>>)] @@ Upd(GROUP_ID, GENERAL_TOPIC, BackupText(d))>> :
      d \in {<<>>, <<Entry(Key9, 9)>>} }

EditMessage(grp, id, text) ==
  [i \in 1..Len(grp) |-> IF grp[i].message_id = id THEN [grp[i] EXCEPT !.text = text]
                         ELSE grp[i]]

\* save_threads_to_group() as it would be if it deleted the message of
\* backup_message_id first and sent the new one after
SaveThreadsRetireFirst(ai, threads, bmid, grp, editOk, sendOk) ==
  LET backup_text == BackupText(threads)
      retired     == SelectSeq(grp, LAMBDA m : m.message_id # bmid)
  IN  IF ai # NoApp /\ sendOk
      THEN [backup_message_id |-> NextMessageId(grp),
            group |-> Append(retired,
                             [message_id |-> NextMessageId(grp)]
                             @@ Upd(GROUP_ID, GENERAL_TOPIC, backup_text)),
            calls |-> 1]
      ELSE [backup_message_id |-> None, group |-> retired, calls |-> 0]

\* save_threads_to_group(); editOk, sendOk: what the transport answers to
\* edit_message_text and send_message.  app_instance.bot raises AttributeError
\* when app_instance is None: inside the try of line 85 for the edit, under the
\* try of line 79 for the send.  calls: the transport calls that succeeded.
SaveThreads(ai, threads, bmid, grp, editOk, sendOk) ==
  LET backup_text == BackupText(threads)
      edited ==
        IF bmid # None /\ bmid # 0
        THEN IF ai # NoApp /\ editOk
             THEN [backup_message_id |-> bmid,
                   group |-> EditMessage(grp, bmid, backup_text), calls |-> 1]
             ELSE [backup_message_id |-> None, group |-> grp, calls |-> 0]
        ELSE [backup_message_id |-> bmid, group |-> grp, calls |-> 0]
  IN  IF edited.backup_message_id = None \/ edited.backup_message_id = 0
      THEN IF ai # NoApp /\ sendOk
           THEN [backup_message_id |-> NextMessageId(grp),
                 group |-> Append(edited.group,
                                  [message_id |-> NextMessageId(grp)]
                                  @@ Upd(GROUP_ID, GENERAL_TOPIC, backup_text)),
                 calls |-> edited.calls + 1]
           ELSE edited
      ELSE edited

\* ------------------------------------------------------------------ router
Fail == 0 - 2

\* open_thread_for_user(app, user) as it would be if it stored the mapping
\* before the send answered
OpenThreadStoreFirst(ai, threads, bmid, grp, key, created, editOk, sendOk) ==
  LET stored == SetItem(threads, key, IF created = Fail THEN None ELSE created)
      saved  == SaveThreads(ai, stored, bmid, grp, editOk, sendOk)
  IN  [raised |-> created = Fail, thread_id |-> created, user_threads |-> stored,
       backup_message_id |-> saved.backup_message_id, group |-> saved.group,
       calls |-> saved.calls]

\* open_thread_for_user(app, user); created: the message_thread_id of the message
\* the transport returns for the send of lines 118-126, or Fail when it raises
OpenThread(ai, threads, bmid, grp, key, created, editOk, sendOk) ==
  IF created = Fail
  THEN [raised |-> TRUE, thread_id |-> None, user_threads |-> threads,
        backup_message_id |-> bmid, group |-> grp, calls |-> 0]
  ELSE LET stored == SetItem(threads, key, created)
           saved  == SaveThreads(ai, stored, bmid, grp, editOk, sendOk)
       IN  [raised |-> FALSE, thread_id |-> created, user_threads |-> stored,
            backup_message_id |-> saved.backup_message_id, group |-> saved.group,
            calls |-> saved.calls]

\* the try of lines 153-203 as it would be if a failed send were made again
RelayRetry(obs, kind, thread_id, relayOk) ==
  [obs EXCEPT !.relayed = kind \in RelayedKinds,
              !.sends = IF kind \in RelayedKinds THEN (IF relayOk THEN 1 ELSE 2) ELSE 0,
              !.sendOk = kind \in RelayedKinds /\ relayOk,
              !.thread = thread_id]

\* the try of lines 153-203 for a message of payload kind `kind`: one send for
\* one of the seven kinds, none otherwise; relayOk: that send returned (an
\* exception is logged at line 203 and goes no further)
Relay(obs, kind, thread_id, relayOk) ==
  [obs EXCEPT !.relayed = kind \in RelayedKinds,
              !.sends = IF kind \in RelayedKinds THEN 1 ELSE 0,
              !.sendOk = kind \in RelayedKinds /\ relayOk,
              !.thread = thread_id]

\* forward_to_group(update, context) for a private message of user id `user` and
\* payload kind `kind`
ForwardToGroup(ai, threads, bmid, grp, user, kind, created, editOk, sendOk, relayOk) ==
  LET user_id   == Str(user)
      thread_id == Get(threads, user_id)
      opened    == OpenThread(ai, threads, bmid, grp, user_id, created, editOk, sendOk)
      obs       == [NoOp EXCEPT !.op = "forward", !.key = user_id, !.kind = kind,
                                !.hadEntry = HasKey(threads, user_id),
                                !.before = thread_id]
  IN  IF thread_id = None
      THEN IF opened.raised
           THEN [user_threads |-> opened.user_threads,
                 backup_message_id |-> opened.backup_message_id,
                 group |-> opened.group,
                 last |-> [obs EXCEPT !.creates = 1]]
           ELSE [user_threads |-> opened.user_threads,
                 backup_message_id |-> opened.backup_message_id,
                 group |-> opened.group,
                 last |-> Relay([obs EXCEPT !.creates = 1, !.createOk = TRUE,
                                            !.saved = TRUE,
                                            !.publishes = opened.calls],
                                kind, opened.thread_id, relayOk)]
      ELSE [user_threads |-> threads, backup_message_id |-> bmid, group |-> grp,
            last |-> Relay(obs, kind, thread_id, relayOk)]

\* the scan of lines 217-221: the position, in dict order, of the first entry
\* mapped to thread_id, or 0 when there is none (target_user_id stays None)
RECURSIVE FindUserByThread(_, _, _)
FindUserByThread(threads, thread_id, i) ==
  IF i > Len(threads) THEN 0
  ELSE IF threads[i].v = thread_id THEN i
  ELSE FindUserByThread(threads, thread_id, i + 1)

\* the handler without the test of lines 210-212
HandleGroupReplyNoMarkerTest(threads, ev) ==
  IF ~ev.has_message \/ ~ev.is_topic_message THEN {}
  ELSE LET at == FindUserByThread(threads, ev.thread, 1)
       IN  IF at # 0 /\ threads[at].k # <<>> THEN {threads[at].k} ELSE {}

\* the handler without the test of is_topic_message of line 207
HandleGroupReplyNoTopicTest(threads, ev) ==
  IF ~ev.has_message THEN {}
  ELSE IF ev.text # <<>> /\ StartsWithMarker(ev.text) THEN {}
  ELSE LET at == FindUserByThread(threads, ev.thread, 1)
       IN  IF at # 0 /\ threads[at].k # <<>> THEN {threads[at].k} ELSE {}

\* handle_group_reply(update, context): the set of users copy_message is called for
HandleGroupReply(threads, ev) ==
  IF ~ev.has_message \/ ~ev.is_topic_message THEN {}
  ELSE IF ev.text # <<>> /\ StartsWithMarker(ev.text) THEN {}
  ELSE LET at == FindUserByThread(threads, ev.thread, 1)
       IN  IF at # 0 /\ threads[at].k # <<>> THEN {threads[at].k} ELSE {}

ReplyTexts == { <<>>, <<"o", "k">>, BackupText(<<>>), <<"o", "k", Marker>> }
ReplyEvents ==
  { ev \in [has_message : BOOLEAN, is_topic_message : BOOLEAN,
            thread : ThreadVals \cup {GENERAL_TOPIC}, text : ReplyTexts] :
      ev.is_topic_message => ev.thread # None }

\* ------------------------------------------------------------------ actions
\* a slot that holds no suspended call
Idle == [pc |-> "idle", key |-> <<>>, kind |-> "other", thread_id |-> None]

\* what the transport may answer to a call of save_threads_to_group: it is
\* never asked while app_instance is None
Answers(ai) == IF ai = NoApp THEN {FALSE} ELSE BOOLEAN

Init ==
  /\ phase = "import"
  /\ app_instance = NoApp
  /\ user_threads = <<>>
  /\ backup_message_id = None
  /\ group \in InitGroups
  /\ inflight = [s \in 1..MaxInFlight |-> Idle]
  /\ last = NoOp

\* run_bot (lines 269-315): app_instance = app binds a local of run_bot (main's
\* global statement does not reach the nested function), and the call of
\* line 276 passes no bot: TypeError, logged and raised again by lines 313-315.
run_bot ==
  /\ phase = "import"
  /\ phase' = "aborted"
  /\ last' = [NoOp EXCEPT !.op = "run_bot"]
  /\ UNCHANGED <<app_instance, user_threads, backup_message_id, group, inflight>>

\* load_threads_from_group(bot), and then the registrations of lines 279-294
load_threads_from_group ==
  /\ phase = "import"
  /\ \E earlier \in Windows, scanOk \in BOOLEAN :
       LET updates == GetUpdates(earlier, group)
           r       == LoadThreads(updates, backup_message_id, scanOk)
       IN  /\ user_threads' = r.user_threads
           /\ backup_message_id' = r.backup_message_id
           /\ last' = [NoOp EXCEPT !.op = "load", !.found = r.found,
                                   !.scanned = scanOk,
                                   !.updates = IF scanOk THEN updates ELSE <<>>]
  /\ phase' = "serving"
  /\ UNCHANGED <<app_instance, group, inflight>>

forward_to_group ==
  /\ phase = "serving"
  /\ \E user \in UserIds, kind \in EventKinds, created \in ThreadVals \cup {Fail},
        editOk \in Answers(app_instance), sendOk \in Answers(app_instance),
        relayOk \in BOOLEAN :
       LET r == ForwardToGroup(app_instance, user_threads, backup_message_id, group,
                               user, kind, created, editOk, sendOk, relayOk)
       IN  /\ user_threads' = r.user_threads
           /\ backup_message_id' = r.backup_message_id
           /\ group' = r.group
           /\ last' = [r.last EXCEPT !.afterLoad = (last.op = "load" /\ last.found)]
  /\ UNCHANGED <<phase, app_instance, inflight>>

handle_group_reply ==
  /\ phase = "serving"
  /\ \E ev \in ReplyEvents, copyOk \in BOOLEAN :
       last' = [NoOp EXCEPT !.op = "reply",
                            !.copies = HandleGroupReply(user_threads, ev),
                            !.sendOk = HandleGroupReply(user_threads, ev) # {} /\ copyOk,
                            !.marked = StartsWithMarker(ev.text),
                            !.topic = ev.has_message /\ ev.is_topic_message,
                            !.thread = ev.thread]
  /\ UNCHANGED <<phase, app_instance, user_threads, backup_message_id, group, inflight>>

\* backup_command(update, context) (lines 240-244); replyOk: reply_text of
\* line 244 returned (it is under no try, so its exception leaves the handler)
backup_command ==
  /\ phase = "serving"
  /\ \E chat \in {GROUP_ID, OtherChat}, replyOk \in BOOLEAN,
        editOk \in Answers(app_instance), sendOk \in Answers(app_instance) :
       LET r == SaveThreads(app_instance, user_threads, backup_message_id, group,
                            editOk, sendOk)
       IN  IF chat = GROUP_ID
           THEN /\ backup_message_id' = r.backup_message_id
                /\ group' = r.group
                /\ last' = [NoOp EXCEPT !.op = "backup", !.saved = TRUE,
                                        !.publishes = r.calls,
                                        !.sendOk = replyOk, !.raised = ~replyOk]
           ELSE /\ UNCHANGED <<backup_message_id, group>>
                /\ last' = [NoOp EXCEPT !.op = "backup"]
  /\ UNCHANGED <<phase, app_instance, user_threads, inflight>>

\* one round of periodic_backup (lines 248-252)
periodic_backup ==
  /\ phase = "serving"
  /\ \E editOk \in Answers(app_instance), sendOk \in Answers(app_instance) :
       LET r == SaveThreads(app_instance, user_threads, backup_message_id, group,
                            editOk, sendOk)
       IN  IF user_threads # <<>>
           THEN /\ backup_message_id' = r.backup_message_id
                /\ group' = r.group
                /\ last' = [NoOp EXCEPT !.op = "periodic", !.saved = TRUE,
                                        !.publishes = r.calls]
           ELSE /\ UNCHANGED <<backup_message_id, group>>
                /\ last' = [NoOp EXCEPT !.op = "periodic"]
  /\ UNCHANGED <<phase, app_instance, user_threads, inflight>>

\* the process ends and is started again: the module is imported anew
\* (lines 31-33); what the admin group holds stays
restart ==
  /\ phase \in {"aborted", "serving"}
  /\ phase' = "import"
  /\ app_instance' = NoApp
  /\ user_threads' = <<>>
  /\ backup_message_id' = None
  /\ inflight' = [s \in 1..MaxInFlight |-> Idle]
  /\ last' = NoOp
  /\ UNCHANGED group

Next ==
  \/ run_bot
  \/ load_threads_from_group
  \/ forward_to_group
  \/ handle_group_reply
  \/ backup_command
  \/ periodic_backup
  \/ restart

Spec == Init /\ [][Next]_vars

\* -------------------------------------------- forward_to_group, await by await
\* The same program with forward_to_group taken one await at a time, so that a
\* call can begin while another is suspended in the send that opens the thread
\* (line 118) or in the relay send (lines 155-199).  save_threads_to_group
\* stays one step: with app_instance None it raises at `app_instance.bot`
\* before it reaches an await.  handle_group_reply writes no global and is
\* left out of these steps.

\* lines 140-145: the call reads the thread id and is suspended in the send of
\* open_thread_for_user, or in the relay send, or ends (no branch for the kind)
forward_begin ==
  /\ phase = "serving"
  /\ \E s \in 1..MaxInFlight, user \in UserIds, kind \in EventKinds :
       LET user_id   == Str(user)
           thread_id == Get(user_threads, user_id)
       IN  /\ inflight[s].pc = "idle"
           /\ inflight' =
                [inflight EXCEPT ![s] =
                   IF thread_id = None
                   THEN [pc |-> "creating", key |-> user_id, kind |-> kind,
                         thread_id |-> None]
                   ELSE IF kind \in RelayedKinds
                        THEN [pc |-> "relaying", key |-> user_id, kind |-> kind,
                              thread_id |-> thread_id]
                        ELSE Idle]
           /\ last' = [NoOp EXCEPT !.op = "begin", !.key = user_id, !.kind = kind,
                                   !.hadEntry = HasKey(user_threads, user_id),
                                   !.before = thread_id]
  /\ UNCHANGED <<phase, app_instance, user_threads, backup_message_id, group>>

\* lines 127-133 and 146-151: the send of open_thread_for_user answers; the
\* mapping is stored and saved, or the exception ends the call
forward_opened ==
  /\ phase = "serving"
  /\ \E s \in 1..MaxInFlight, created \in ThreadVals \cup {Fail},
        editOk \in Answers(app_instance), sendOk \in Answers(app_instance) :
       LET call   == inflight[s]
           opened == OpenThread(app_instance, user_threads, backup_message_id, group,
                                call.key, created, editOk, sendOk)
           obs    == [NoOp EXCEPT !.op = "opened", !.key = call.key,
                                  !.kind = call.kind,
                                  !.hadEntry = HasKey(user_threads, call.key),
                                  !.before = Get(user_threads, call.key),
                                  !.creates = 1]
       IN  /\ call.pc = "creating"
           /\ user_threads' = opened.user_threads
           /\ backup_message_id' = opened.backup_message_id
           /\ group' = opened.group
           /\ inflight' =
                [inflight EXCEPT ![s] =
                   IF ~opened.raised /\ call.kind \in RelayedKinds
                   THEN [call EXCEPT !.pc = "relaying", !.thread_id = opened.thread_id]
                   ELSE Idle]
           /\ last' = IF opened.raised THEN obs
                      ELSE [obs EXCEPT !.createOk = TRUE, !.saved = TRUE,
                                       !.publishes = opened.calls,
                                       !.thread = opened.thread_id]
  /\ UNCHANGED <<phase, app_instance>>

\* lines 153-203: the relay send answers and the call ends
forward_relayed ==
  /\ phase = "serving"
  /\ \E s \in 1..MaxInFlight, relayOk \in BOOLEAN :
       LET call == inflight[s]
       IN  /\ call.pc = "relaying"
           /\ inflight' = [inflight EXCEPT ![s] = Idle]
           /\ last' = Relay([NoOp EXCEPT !.op = "relayed", !.key = call.key,
                                         !.kind = call.kind],
                            call.kind, call.thread_id, relayOk)
  /\ UNCHANGED <<phase, app_instance, user_threads, backup_message_id, group>>

NextAwaits ==
  \/ run_bot
  \/ load_threads_from_group
  \/ forward_begin
  \/ forward_opened
  \/ forward_relayed
  \/ backup_command
  \/ periodic_backup
  \/ restart

SpecAwaits == Init /\ [][NextAwaits]_vars

\* ------------------------------------------------------------------ claims
\* what a text decodes to by the steps of lines 55-58
Decoded(text) == JsonLoads(JsonTextOf(text))
\* the content of a candidate backup: an empty or undecodable payload holds no entry
ContentOf(text) ==
  IF JsonTextOf(text) # <<>> /\ Decoded(text).kind = "dict" THEN Decoded(text).val
  ELSE <<>>
CandidateIndexes(updates) == {i \in 1..Len(updates) : IsCandidate(updates[i])}
MostRecent(indexes) == CHOOSE i \in indexes : \A j \in indexes : j <= i
\* load_threads_from_group has finished in this process
RecoveryFinished == phase = "serving"

\* C1: a private message from a user without an entry causes exactly one
\* thread-creation send and, when that send returns, exactly one backup publish
\* that reaches the transport; a message from a user with an entry causes no
\* thread-creation send.
C1_FirstMessageCreatesAndPublishesOnce ==
  last.op = "forward" =>
    /\ ~last.hadEntry => (last.creates = 1 /\ (last.createOk => last.publishes = 1))
    /\ last.hadEntry => last.creates = 0

\* C2: when a handler that created a mapping user -> thread has finished, a
\* backup message in the admin group holds that mapping.
C2_WriteThrough ==
  (last.op = "forward" /\ last.createOk) =>
    \E i \in 1..Len(group) :
      /\ IsCandidate(group[i])
      /\ Decoded(group[i].text).kind = "dict"
      /\ \E j \in 1..Len(Decoded(group[i].text).val) :
           Decoded(group[i].text).val[j] = [k |-> last.key, v |-> last.thread]

\* the backup the loader found: the update backup_message_id names
C3_FoundBackup ==
  LET at == CHOOSE i \in 1..Len(last.updates) :
              last.updates[i].message_id = backup_message_id
  IN  Decoded(last.updates[at].text)

C3_Step ==
  /\ (last.op = "load" /\ last.found) =>
       (C3_FoundBackup.kind = "dict" /\ user_threads = C3_FoundBackup.val)
  /\ (last.op = "load" /\ last.found /\ last'.op = "forward") =>
       \A i \in 1..Len(C3_FoundBackup.val) :
         (C3_FoundBackup.val[i].k = last'.key /\ C3_FoundBackup.val[i].v # None) =>
           /\ last'.creates = 0
           /\ last'.thread = C3_FoundBackup.val[i].v
           /\ (last'.kind \in RelayedKinds => last'.relayed)
           /\ user_threads' = user_threads

\* C3: when the loader finds a backup, the thread map after the load is the
\* backup's content, and the next private message from a user the backup maps to
\* a thread t makes no thread-creation send, resolves to t and, being of a relayed
\* kind, is relayed into t.
C3_RestartRoundTrip == [][C3_Step]_vars

\* C3: a private message of a relayed kind, handled right after a load that found
\* a backup, from a user that backup maps: relayed without a thread-creation send
C3_Witness ==
  /\ last.op = "forward" /\ last.afterLoad /\ last.hadEntry
  /\ last.thread \in ThreadIds /\ last.creates = 0 /\ last.relayed

\* C4: when the scan window holds two or more candidate backups, the thread map
\* after the load is the content of the most recent one.
C4_MostRecentWins ==
  (last.op = "load" /\ last.scanned /\ Cardinality(CandidateIndexes(last.updates)) >= 2)
    => user_threads = ContentOf(last.updates[MostRecent(CandidateIndexes(last.updates))].text)

\* C5: when run_bot has run, for every scan window and so also for one that
\* holds no candidate backup, startup has gone on to register the handlers.
C5_StartupRegistersHandlers == last.op = "run_bot" => phase = "serving"

\* C6: decoding the backup text of a thread map by the steps of the loader
\* yields that thread map.
C6_CodecRoundTrip ==
  Decoded(BackupText(user_threads)) = [kind |-> "dict", val |-> user_threads]

\* C6: a thread map with two entries, a one-digit and a two-digit key
C6_Witness ==
  /\ Len(user_threads) = 2
  /\ \E i \in 1..2 : user_threads[i].v \in ThreadIds /\ user_threads[i].v >= 10
  /\ last.op = "forward" /\ last.createOk

\* C7: no thread id is associated with two users.
C7_Injective ==
  \A i, j \in 1..Len(user_threads) :
    user_threads[i].v = user_threads[j].v => i = j

\* C8: for every stored mapping u -> t, an admin topic message in thread t that
\* is not a backup is copied to u and to no other user.
C8_ReverseLookup ==
  (last.op = "reply" /\ last.topic /\ ~last.marked) =>
    \A i \in 1..Len(user_threads) :
      user_threads[i].v = last.thread => last.copies = {user_threads[i].k}

\* C9: an admin-group event whose text starts with the backup marker is copied
\* to no user.
C9_BackupNeverRouted == (last.op = "reply" /\ last.marked) => last.copies = {}

\* C9: a topic message with the marker, in the thread of a mapped user
C9_Witness ==
  /\ last.op = "reply" /\ last.marked /\ last.topic
  /\ \E i \in 1..Len(user_threads) : user_threads[i].v = last.thread

Artifacts(grp) == {grp[i].message_id : i \in {j \in 1..Len(grp) : IsCandidate(grp[j])}}

\* C11: once the admin group holds a backup artifact, no step takes one away,
\* whether a publish fails on the way or the process ends and starts again: every
\* artifact of the state before is an artifact of the state after, so a prior
\* artifact is never retired ahead of its replacement
C11_Step == Artifacts(group) \subseteq Artifacts(group')
C12_Step ==
  (phase = "serving" /\ phase' = "serving") =>
    /\ Len(user_threads') >= Len(user_threads)
    /\ \A i \in 1..Len(user_threads) : user_threads'[i] = user_threads[i]
C13_Step ==
  (last'.op = "forward" /\ last'.creates = 1 /\ ~last'.createOk) =>
    /\ user_threads' = user_threads
    /\ backup_message_id' = backup_message_id
    /\ group' = group
    /\ ~last'.relayed /\ last'.sends = 0
    /\ ~last'.saved /\ last'.publishes = 0
    /\ ~last'.raised /\ phase' = "serving"
C13_CreationFailureDropsEvent == [][C13_Step]_vars
\* the send failed for a message of a relayed kind, with a backup handle and
\* another user's mapping in place
C13_Witness ==
  /\ last.op = "forward" /\ last.creates = 1 /\ ~last.createOk
  /\ ~last.hadEntry /\ last.kind \in RelayedKinds
  /\ backup_message_id # None /\ user_threads # <<>>

\* json.loads raises on the payload of the backup text, or gives no dict
Undecodable(text) == JsonTextOf(text) # <<>> /\ Decoded(text).kind # "dict"

C15_MapBeforeSend ==
  IF last'.op = "forward" /\ last'.createOk
  THEN SetItem(user_threads, last'.key, last'.thread)
  ELSE user_threads

\* C15: a handler whose relay send, copy or publish fails ends without raising,
\* has made that send once, and leaves the thread map as it was before the
\* failing call (a backup_command raises only when its own reply_text fails)
C15_Step ==
  /\ (last'.op = "forward" /\ last'.sends > 0 /\ ~last'.sendOk) =>
       /\ last'.sends = 1 /\ ~last'.raised /\ phase' = "serving"
       /\ user_threads' = C15_MapBeforeSend
  /\ (last'.op = "reply" /\ last'.copies # {} /\ ~last'.sendOk) =>
       /\ Cardinality(last'.copies) = 1 /\ ~last'.raised /\ phase' = "serving"
       /\ user_threads' = user_threads
  /\ (last'.saved /\ last'.publishes = 0) =>
       /\ last'.raised => (last'.op = "backup" /\ ~last'.sendOk)
       /\ phase' = "serving"
       /\ user_threads' = C15_MapBeforeSend
C15_FailureIsolation == [][C15_Step]_vars
\* a handler opened a thread, its publish did not get through and its relay
\* send failed
C15_Witness ==
  /\ last.op = "forward" /\ last.createOk /\ last.thread \in ThreadIds
  /\ last.saved /\ last.publishes = 0
  /\ last.sends = 1 /\ ~last.sendOk

\* C16: an event of the admin group that is no topic message, or whose thread
\* id is the thread id of no entry of the thread map, is copied to no user and
\* leaves the thread map and the backup handle as they were
C16_Step ==
  (/\ last'.op = "reply"
   /\ \/ ~last'.topic
      \/ \A i \in 1..Len(user_threads) : user_threads[i].v # last'.thread)
    => /\ last'.copies = {}
       /\ user_threads' = user_threads
       /\ backup_message_id' = backup_message_id
C16_UnroutableAdminEvent == [][C16_Step]_vars
\* an event that is no topic message, without the marker, in the thread of a
\* user, with a backup handle in place
C16_Witness ==
  /\ last.op = "reply" /\ ~last.topic /\ ~last.marked
  /\ \E i \in 1..Len(user_threads) : user_threads[i].v = last.thread
  /\ backup_message_id # None

\* C17: with forward_to_group calls overlapping at their awaits, a thread is
\* opened and its mapping written only for a user who has no thread id yet: a
\* user ends with at most one thread and one write of the mapping
C17_NoDuplicateThread ==
  (last.op = "opened" /\ last.createOk) => last.before = None

C19_PublishReplacesPrevious ==
  last.saved => Artifacts(group) = {backup_message_id}

====
